---- MODULE Spec2Model ----
(***************************************************************************)
(* Model of the earth-movement manager (src/2222.py): the five MySQL       *)
(* tables, the two module globals `opcion` and `numero`, and one action    *)
(* per menu option of the main loop.  Decimal factors are kept as integer  *)
(* hundredths (0.81 -> 81), so an adjusted volume v * (1 + f) is the       *)
(* integer v * (100 + f100) in hundredths of a cubic metre.                *)
(***************************************************************************)
EXTENDS Integers, Sequences, FiniteSets, TLC

(* ------------------------------ bounds --------------------------------- *)
\* ids that coordenadas, volumen and tipo each hand out during one run
MaxId == 3
\* ids that registro hands out during one run
MaxRegistro == 5
\* data rows of an import file
MaxRows == 2
\* rows the tables had held and lost again when the program starts on a used store
Previos == 7

Descriptores == {"A1", "B2"}

(* ------------------------- Terrain catalogue --------------------------- *)
\* Tipo_terreno(v): the Enum lookup succeeds exactly on the values 1..8
Tipo_terreno_valido(v) == v \in 1..8

\* factores_correccion, in hundredths
factores_correccion(t) ==
    CASE t = 1 -> 83
      [] t = 2 -> 81
      [] t = 3 -> 80
      [] t = 4 -> 86
      [] t = 5 -> 84
      [] t = 6 -> 70
      [] t = 7 -> 75
      [] t = 8 -> 80
      [] OTHER -> 0

(* ------------------------------- state --------------------------------- *)
VARIABLES
    coordenadas,   \* table coordenadas: id_coordenadas -> [norte, este]
    volumen,       \* table volumen: id_volumen -> [ancho, largo, alto, total]
    tipo,          \* table tipo: id_tipo -> [tipo, factor_de_esponjamiento]
    registro,      \* table registro: id_registro -> opcion (the date is dropped)
    movimientos,   \* table movimientos, in insertion order
    nextId,        \* AUTO_INCREMENT counter of each table
    previos,       \* records that earlier runs added and removed again
    opcion,        \* module global set by the main loop
    numero,        \* module global set by option 1
    estado,        \* "menu", "terminado" (option 7) or "abortado" (uncaught exception)
    last           \* what the last operation did: its outcome, the total it
                   \* printed, the rows it wrote to the report file and the
                   \* connections it left open

vars == <<coordenadas, volumen, tipo, registro, movimientos, nextId, previos,
          opcion, numero, estado, last>>

\* `numero` before option 1 has run once: the name is unbound
SinNumero == "<unbound>"
\* `opcion` before the first menu selection
SinOpcion == "<unbound>"

\* the committed database as one value
DB == [coordenadas |-> coordenadas, volumen |-> volumen, tipo |-> tipo,
       registro |-> registro, movimientos |-> movimientos, nextId |-> nextId]

\* f extended (or overwritten) at key k
Put(f, k, v) == [x \in (DOMAIN f) \cup {k} |-> IF x = k THEN v ELSE f[x]]
\* f without key k
Del(f, k) == [x \in (DOMAIN f) \ {k} |-> f[x]]

Existe(movs, d) == \E i \in 1..Len(movs) : movs[i].descriptor = d

\* The backing store's uniqueness constraint on movimientos.descriptor:
\* an INSERT of descriptor d is accepted iff no row carries d.
DescriptorUnico(movs, d) == ~Existe(movs, d)

(* ------------------------- agregar_movimiento -------------------------- *)
\* Steps: 1 INSERT coordenadas, 2 INSERT volumen, 3 INSERT tipo,
\* 4 INSERT registro, 5 INSERT movimientos, 6 commit.  failAt = k makes
\* step k raise a mysql error; 0 injects nothing.  Step 5 also raises when the
\* store refuses the descriptor.  Nothing is visible before the commit: an
\* exception leaves through the finally block, whose close() discards the
\* transaction (the ids it drew are modelled as not consumed).  `abiertas`
\* counts the connections a call opened and has not closed when it returns.
AgregarStop(db, descriptor, failAt) ==
    IF failAt \in 1..5 THEN failAt
    ELSE IF ~DescriptorUnico(db.movimientos, descriptor) THEN 5
    ELSE failAt

agregar_movimiento(db, descriptor, vol, t, coords, opc, failAt) ==
    LET stop == AgregarStop(db, descriptor, failAt)
        idC == db.nextId.coordenadas
        idV == db.nextId.volumen
        idT == db.nextId.tipo
        idR == db.nextId.registro
    IN  IF stop = 0
        THEN [db |-> [coordenadas |-> Put(db.coordenadas, idC,
                                          [norte |-> coords[1], este |-> coords[2]]),
                      volumen     |-> Put(db.volumen, idV,
                                          [ancho |-> vol[1], largo |-> vol[2],
                                           alto |-> vol[3], total |-> vol[4]]),
                      tipo        |-> Put(db.tipo, idT,
                                          [tipo |-> t,
                                           factor_de_esponjamiento |-> factores_correccion(t)]),
                      registro    |-> Put(db.registro, idR, opc),
                      movimientos |-> Append(db.movimientos,
                                          [descriptor |-> descriptor, id_volumen |-> idV,
                                           id_tipo |-> idT, id_coordenadas |-> idC,
                                           id_registro |-> idR]),
                      nextId      |-> [coordenadas |-> idC + 1, volumen |-> idV + 1,
                                       tipo |-> idT + 1, registro |-> idR + 1]],
              ok |-> TRUE, fallo |-> FALSE, abiertas |-> 0]
        ELSE [db |-> db, ok |-> FALSE, fallo |-> failAt # 0 /\ stop = failAt,
              abiertas |-> 0]

(* ------------------------- obtener_movimientos ------------------------- *)
\* SELECT m.descriptor, v.total, t.id_tipo, c.este, c.norte ... JOIN ...
RECURSIVE Join(_, _)
Join(db, i) ==
    IF i > Len(db.movimientos) THEN <<>>
    ELSE LET m == db.movimientos[i]
         IN  IF /\ m.id_volumen \in DOMAIN db.volumen
                /\ m.id_tipo \in DOMAIN db.tipo
                /\ m.id_coordenadas \in DOMAIN db.coordenadas
             THEN << <<m.descriptor,
                       db.volumen[m.id_volumen].total,
                       m.id_tipo,
                       db.coordenadas[m.id_coordenadas].este,
                       db.coordenadas[m.id_coordenadas].norte>> >> \o Join(db, i + 1)
             ELSE Join(db, i + 1)

obtener_movimientos(db) == Join(db, 1)

(* ---------------------- calcular_cubicacion_total ---------------------- *)
\* Folds volumen * factor + volumen over the rows; Tipo_terreno(movimiento[2])
\* raises ValueError on a value outside 1..8.
RECURSIVE Cubicacion(_, _, _)
Cubicacion(movs, i, acc) ==
    IF i > Len(movs) THEN [error |-> FALSE, total |-> acc]
    ELSE IF ~Tipo_terreno_valido(movs[i][3]) THEN [error |-> TRUE, total |-> 0]
    ELSE Cubicacion(movs, i + 1,
                    acc + movs[i][2] * factores_correccion(movs[i][3]) + movs[i][2] * 100)

calcular_cubicacion_total(db) == Cubicacion(obtener_movimientos(db), 1, 0)

(* ------------------------- generar_informe_csv ------------------------- *)
Fila(clase, d, v, t, e, n, adj) ==
    [clase |-> clase, descriptor |-> d, volumen |-> v, tipo |-> t,
     este |-> e, norte |-> n, esponjamiento |-> adj]

\* the per-movement rows; stops at the first row whose Tipo_terreno(...) raises
RECURSIVE FilasInforme(_, _, _)
FilasInforme(movs, i, acc) ==
    IF i > Len(movs) THEN [error |-> FALSE, filas |-> acc]
    ELSE IF ~Tipo_terreno_valido(movs[i][3]) THEN [error |-> TRUE, filas |-> acc]
    ELSE FilasInforme(movs, i + 1,
             Append(acc, Fila("movimiento", movs[i][1], movs[i][2], movs[i][3],
                              movs[i][4], movs[i][5],
                              movs[i][2] * (100 + factores_correccion(movs[i][3])))))

\* generar_informe_csv without the `if not movimientos: return` guard
generar_informe_csv_sin_guarda(db) ==
    LET movs == obtener_movimientos(db)
        cab  == << Fila("cabecera", "", 0, 0, 0, 0, 0) >>
        cuerpo == FilasInforme(movs, 1, cab)
        tot == calcular_cubicacion_total(db)
    IN  IF cuerpo.error \/ tot.error
        THEN [outcome |-> "abortado", filas |-> cuerpo.filas]
        ELSE [outcome |-> "ok",
              filas |-> cuerpo.filas \o << Fila("blanco", "", 0, 0, 0, 0, 0),
                                           Fila("total", "", 0, 0, 0, 0, tot.total) >>]

\* outcome "sin_movimientos": nothing is opened or written;
\* otherwise the rows written to ruta_archivo (header first)
generar_informe_csv(db) ==
    LET movs == obtener_movimientos(db)
        cab  == << Fila("cabecera", "", 0, 0, 0, 0, 0) >>
        cuerpo == FilasInforme(movs, 1, cab)
        tot == calcular_cubicacion_total(db)
    IN  IF movs = <<>> THEN [outcome |-> "sin_movimientos", filas |-> <<>>]
        ELSE IF cuerpo.error \/ tot.error
             THEN [outcome |-> "abortado", filas |-> cuerpo.filas]
        ELSE [outcome |-> "ok",
              filas |-> cuerpo.filas \o << Fila("blanco", "", 0, 0, 0, 0, 0),
                                           Fila("total", "", 0, 0, 0, 0, tot.total) >>]

(* --------------------------- cargar_movimientos ------------------------ *)
\* float(...) / int(...) of a field's text: defined on the numerals below,
\* ValueError on any other text (a header cell, for one)
Numerales == ("-1" :> -1) @@ ("0" :> 0) @@ ("1" :> 1) @@ ("2" :> 2) @@ ("3" :> 3)
             @@ ("4" :> 4) @@ ("5" :> 5) @@ ("7" :> 7) @@ ("9" :> 9)
EsNumeral(s) == s \in DOMAIN Numerales
Valor(s) == Numerales[s]

Cabecera == <<"descriptor", "ancho", "largo", "alto", "tipo", "este", "norte">>

\* Rows from index i on.  `creados` counts the agregar_movimiento calls that
\* returned, `saltadas` the "Fila incompleta" diagnostics printed, and
\* falla = [llamada, paso] is the injected storage fault.  Every exception
\* ends the loop in the handler of line 233.
RECURSIVE CargarFilas(_, _, _, _, _, _)
CargarFilas(db, filas, i, creados, saltadas, falla) ==
    IF i > Len(filas)
    THEN [db |-> db, outcome |-> "ok", fallo |-> FALSE,
          creados |-> creados, saltadas |-> saltadas]
    ELSE LET row == filas[i]
             Error(d, f) == [db |-> d, outcome |-> "error", fallo |-> f,
                             creados |-> creados, saltadas |-> saltadas]
         IN  IF Len(row) < 7
             THEN CargarFilas(db, filas, i + 1, creados, saltadas + 1, falla)
             ELSE IF ~(EsNumeral(row[2]) /\ EsNumeral(row[3]) /\ EsNumeral(row[4]))
                  THEN Error(db, FALSE)
             ELSE IF ~(EsNumeral(row[5]) /\ Tipo_terreno_valido(Valor(row[5])))
                  THEN Error(db, FALSE)
             ELSE LET ancho  == Valor(row[2])
                      largo  == Valor(row[3])
                      altura == Valor(row[4])
                      r == agregar_movimiento(db, row[1],
                               <<ancho, largo, altura, ancho * largo * altura>>,
                               Valor(row[5]), <<Valor(row[6]), Valor(row[7])>>, "4",
                               IF falla.llamada = creados + 1 THEN falla.paso ELSE 0)
                  IN  IF r.ok
                      THEN CargarFilas(r.db, filas, i + 1, creados + 1, saltadas, falla)
                      ELSE Error(r.db, r.fallo)

\* cargar_movimientos without the next(reader) that skips the header
cargar_movimientos_sin_saltar_cabecera(db, archivo, falla) ==
    IF ~archivo.existe
    THEN [db |-> db, outcome |-> "no_encontrado", fallo |-> FALSE,
          creados |-> 0, saltadas |-> 0]
    ELSE CargarFilas(db, archivo.filas, 1, 0, 0, falla)

\* cargar_movimientos with the whole file in one transaction: nothing is kept
\* when a row fails
cargar_movimientos_todo_o_nada(db, archivo, falla) ==
    IF ~archivo.existe
    THEN [db |-> db, outcome |-> "no_encontrado", fallo |-> FALSE,
          creados |-> 0, saltadas |-> 0]
    ELSE IF archivo.filas = <<>>
    THEN [db |-> db, outcome |-> "error", fallo |-> FALSE, creados |-> 0, saltadas |-> 0]
    ELSE LET r == CargarFilas(db, archivo.filas, 2, 0, 0, falla)
         IN  IF r.outcome = "error" THEN [r EXCEPT !.db = db, !.creados = 0] ELSE r

\* archivo: [existe, filas]; filas holds every row of the file, header included.
\* A missing file is FileNotFoundError; next(reader) on an empty file raises
\* StopIteration, which the handler of line 233 reports.
cargar_movimientos(db, archivo, falla) ==
    IF ~archivo.existe
    THEN [db |-> db, outcome |-> "no_encontrado", fallo |-> FALSE,
          creados |-> 0, saltadas |-> 0]
    ELSE IF archivo.filas = <<>>
    THEN [db |-> db, outcome |-> "error", fallo |-> FALSE, creados |-> 0, saltadas |-> 0]
    ELSE CargarFilas(db, archivo.filas, 2, 0, 0, falla)

(* --------------------------- interactive prompts ----------------------- *)
\* Each prompt loop re-asks until an attempt passes its check; `intentos` is
\* what the user types, in order, and the loop leaves with the first attempt
\* that passes; pasa[i] tells whether attempt i passes.
Primero(pasa) ==
    CHOOSE i \in 1..Len(pasa) : pasa[i] /\ \A j \in 1..(i - 1) : ~pasa[j]

DimensionesValidas(a) == ~(a.altura <= 0 \/ a.largo <= 0 \/ a.ancho <= 0)
CoordenadasValidas(c) == ~(~(0 <= c.este /\ c.este <= 10000) \/ ~(0 <= c.norte /\ c.norte <= 10000))

\* the dimension loop with the total taken as largo x ancho
leer_volumen_sin_altura(intentos) ==
    LET a == intentos[Primero([i \in 1..Len(intentos) |-> DimensionesValidas(intentos[i])])]
    IN  <<a.ancho, a.largo, a.altura, a.largo * a.ancho>>

\* the volumen tuple (ancho, largo, altura, total) the dimension loop leaves with
leer_volumen(intentos) ==
    LET a == intentos[Primero([i \in 1..Len(intentos) |-> DimensionesValidas(intentos[i])])]
    IN  <<a.ancho, a.largo, a.altura, a.altura * a.largo * a.ancho>>

leer_tipo(intentos) == intentos[Primero([i \in 1..Len(intentos) |-> Tipo_terreno_valido(intentos[i])])]

\* coordenadas = (este, norte)
leer_coordenadas(intentos) ==
    LET c == intentos[Primero([i \in 1..Len(intentos) |-> CoordenadasValidas(intentos[i])])]
    IN  <<c.este, c.norte>>

(* --------------------------- editar_movimiento ------------------------- *)
\* SELECT ... FROM movimientos WHERE descriptor = %s ; fetchone()
Buscar(movs, d) ==
    IF Existe(movs, d)
    THEN LET i == CHOOSE i \in 1..Len(movs) :
                     /\ movs[i].descriptor = d
                     /\ \A j \in 1..(i - 1) : movs[j].descriptor # d
         IN  <<movs[i]>>
    ELSE <<>>

\* UPDATE ... WHERE id = k touches the row when it exists
Actualizar(f, k, v) == IF k \in DOMAIN f THEN Put(f, k, v) ELSE f

\* After the prompts: the call agregar_movimiento(numero, ...) of the
\* coordinate loop, then steps 1 UPDATE volumen, 2 UPDATE tipo,
\* 3 UPDATE coordenadas, 4 INSERT registro, 5 commit.
editar_movimiento(db, num, d, vol, t, coords, failAdd, failAt) ==
    LET res == Buscar(db.movimientos, d)
    IN  IF res = <<>>
        THEN [db |-> db, outcome |-> "no_encontrado", fallo |-> FALSE, abiertas |-> 1]
        ELSE IF num = SinNumero
        THEN [db |-> db, outcome |-> "error", fallo |-> FALSE, abiertas |-> 0]
        ELSE LET r == agregar_movimiento(db, num, vol, t, coords, "5", failAdd)
                 m == res[1]
                 idR == r.db.nextId.registro
             IN  IF ~r.ok THEN [db |-> r.db, outcome |-> "error", fallo |-> r.fallo,
                                    abiertas |-> r.abiertas]
                 ELSE IF failAt \in 1..5
                      THEN [db |-> r.db, outcome |-> "error", fallo |-> TRUE,
                            abiertas |-> r.abiertas]
                 ELSE [db |-> [r.db EXCEPT
                          !.volumen = Actualizar(@, m.id_volumen,
                                         [ancho |-> vol[1], largo |-> vol[2],
                                          alto |-> vol[3], total |-> vol[4]]),
                          !.tipo = Actualizar(@, m.id_tipo,
                                         [tipo |-> t,
                                          factor_de_esponjamiento |-> factores_correccion(t)]),
                          !.coordenadas = Actualizar(@, m.id_coordenadas,
                                         [norte |-> coords[1], este |-> coords[2]]),
                          !.registro = Put(@, idR, "Editar"),
                          !.nextId.registro = idR + 1],
                       outcome |-> "ok", fallo |-> FALSE, abiertas |-> r.abiertas]

(* -------------------------- eliminar_movimiento ------------------------ *)
\* eliminar_movimiento with the audit INSERT and commit ahead of the lookup
eliminar_movimiento_registra_antes(db, d, failAt) ==
    LET res == Buscar(db.movimientos, d)
        idR == db.nextId.registro
        db1 == [db EXCEPT !.registro = Put(@, idR, "Eliminar"),
                          !.nextId.registro = idR + 1]
    IN  IF res = <<>>
        THEN [db |-> db1, outcome |-> "no_encontrado", fallo |-> FALSE, abiertas |-> 1]
        ELSE IF failAt \in 1..6
        THEN [db |-> db, outcome |-> "error", fallo |-> TRUE, abiertas |-> 0]
        ELSE LET m == res[1]
                 Otro(x) == x.descriptor # d
             IN  [db |-> [db1 EXCEPT
                      !.movimientos = SelectSeq(@, Otro),
                      !.volumen = Del(@, m.id_volumen),
                      !.tipo = Del(@, m.id_tipo),
                      !.coordenadas = Del(@, m.id_coordenadas)],
                  outcome |-> "ok", fallo |-> FALSE, abiertas |-> 0]

\* eliminar_movimiento without the DELETE FROM tipo
eliminar_movimiento_sin_borrar_tipo(db, d, failAt) ==
    LET res == Buscar(db.movimientos, d)
        idR == db.nextId.registro
    IN  IF res = <<>>
        THEN [db |-> db, outcome |-> "no_encontrado", fallo |-> FALSE, abiertas |-> 1]
        ELSE IF failAt \in 1..6
        THEN [db |-> db, outcome |-> "error", fallo |-> TRUE, abiertas |-> 0]
        ELSE LET m == res[1]
                 Otro(x) == x.descriptor # d
             IN  [db |-> [db EXCEPT
                      !.movimientos = SelectSeq(@, Otro),
                      !.volumen = Del(@, m.id_volumen),
                      !.coordenadas = Del(@, m.id_coordenadas),
                      !.registro = Put(@, idR, "Eliminar"),
                      !.nextId.registro = idR + 1],
                  outcome |-> "ok", fallo |-> FALSE, abiertas |-> 0]

\* Steps 1 DELETE movimientos, 2 DELETE volumen, 3 DELETE tipo,
\* 4 DELETE coordenadas, 5 INSERT registro, 6 commit.
eliminar_movimiento(db, d, failAt) ==
    LET res == Buscar(db.movimientos, d)
        idR == db.nextId.registro
    IN  IF res = <<>>
        THEN [db |-> db, outcome |-> "no_encontrado", fallo |-> FALSE, abiertas |-> 1]
        ELSE IF failAt \in 1..6
        THEN [db |-> db, outcome |-> "error", fallo |-> TRUE, abiertas |-> 0]
        ELSE LET m == res[1]
                 Otro(x) == x.descriptor # d
             IN  [db |-> [db EXCEPT
                      !.movimientos = SelectSeq(@, Otro),
                      !.volumen = Del(@, m.id_volumen),
                      !.tipo = Del(@, m.id_tipo),
                      !.coordenadas = Del(@, m.id_coordenadas),
                      !.registro = Put(@, idR, "Eliminar"),
                      !.nextId.registro = idR + 1],
                  outcome |-> "ok", fallo |-> FALSE, abiertas |-> 0]

(* ------------------------------- inputs -------------------------------- *)
\* what the user types at the prompts of options 1 and 5
Entradas ==
    { [dims   |-> << [altura |-> 4, largo |-> 3, ancho |-> 2] >>,
       tipos  |-> << 2 >>,
       coords |-> << [este |-> 3, norte |-> 5] >>],
      [dims   |-> << [altura |-> 0, largo |-> 3, ancho |-> 2],
                     [altura |-> 1, largo |-> 1, ancho |-> 1] >>,
       tipos  |-> << 9, 7 >>,
       coords |-> << [este |-> 10001, norte |-> 5], [este |-> 7, norte |-> 1] >>] }

\* data rows an import file may hold
FilasPosibles ==
    { <<"A1", "2", "3", "4", "2", "3", "5">>,
      <<"B2", "1", "1", "1", "7", "7", "1">>,
      <<"B2", "1", "1", "1", "7">>,
      <<"B2", "0", "3", "4", "2", "3", "5">>,
      <<"A1", "2", "3", "4", "9", "3", "5">> }

SeqsHasta(S, n) == UNION { [1..k -> S] : k \in 0..n }

Archivos ==
    { [existe |-> TRUE, filas |-> <<Cabecera>> \o f] : f \in SeqsHasta(FilasPosibles, MaxRows) }
    \cup { [existe |-> TRUE, filas |-> <<>>], [existe |-> FALSE, filas |-> <<>>] }

\* data rows (the header aside) that reach agregar_movimiento at most
Completas(filas) == Cardinality({i \in 2..Len(filas) : Len(filas[i]) >= 7})

\* where a storage fault may be injected into an operation of n steps
Pasos(n) == 0..n
SinFalla == [llamada |-> 0, paso |-> 0]
\* during an import of n complete rows: in the k-th call of agregar_movimiento,
\* between its INSERTs (option 1 injects at each of the six steps)
FallasCarga(n) ==
    {SinFalla} \cup {[llamada |-> k, paso |-> 3] : k \in 1..n}

\* what option 4 may be given: a file, and a storage fault in one of the
\* agregar_movimiento calls its complete rows lead to
Cargas ==
    UNION { { [archivo |-> a, falla |-> f, completas |-> Completas(a.filas)] :
                f \in {g \in FallasCarga(MaxRows) : g.llamada <= Completas(a.filas)} } :
            a \in Archivos }

\* the counters can hand out n more row ids and regs more registro ids
Cabe(n, regs) ==
    /\ nextId.coordenadas + n <= previos + MaxId + 1
    /\ nextId.volumen + n <= previos + MaxId + 1
    /\ nextId.tipo + n <= previos + MaxId + 1
    /\ nextId.registro + regs <= 2 * previos + MaxRegistro + 1

\* what an operation leaves for the user to see, and what it was given
Informa(op, d, outcome, fallo, total, filas, carga, vol, t, coords, abiertas) ==
    [op |-> op, d |-> d, outcome |-> outcome, fallo |-> fallo, total |-> total,
     filas |-> filas, carga |-> carga, vol |-> vol, t |-> t, coords |-> coords,
     abiertas |-> abiertas]

SinVol == <<0, 0, 0, 0>>
SinCoords == <<0, 0>>
SinCarga == [creados |-> 0, saltadas |-> 0]
Lectura(op, outcome, total, filas) ==
    Informa(op, "", outcome, FALSE, total, filas, SinCarga, SinVol, 0, SinCoords, 0)

Guardar(db) ==
    /\ coordenadas' = db.coordenadas
    /\ volumen' = db.volumen
    /\ tipo' = db.tipo
    /\ registro' = db.registro
    /\ movimientos' = db.movimientos
    /\ nextId' = db.nextId

(* -------------------------------- Init --------------------------------- *)
\* The program starts on the database MySQL kept from earlier runs: a new
\* one, or one in which k records were added by option 1 and removed again,
\* which leaves the tables empty, 2k lines in registro and the counters
\* advanced.
Init ==
    /\ previos \in {0, Previos}
    /\ coordenadas = <<>>
    /\ volumen = <<>>
    /\ tipo = <<>>
    /\ registro = [i \in 1..(2 * previos) |-> IF i % 2 = 1 THEN "1" ELSE "Eliminar"]
    /\ movimientos = <<>>
    /\ nextId = [coordenadas |-> previos + 1, volumen |-> previos + 1,
                 tipo |-> previos + 1, registro |-> 2 * previos + 1]
    /\ opcion = SinOpcion
    /\ numero = SinNumero
    /\ estado = "menu"
    /\ last = Lectura("inicio", "ok", 0, <<>>)

(* ------------------------------- actions ------------------------------- *)
\* the pre-check of option 1 left out
YaExiste_sin_comprobar(db, d) == FALSE

\* any(movimiento[0] == numero for movimiento in obtener_movimientos())
YaExiste(db, d) ==
    \E i \in 1..Len(obtener_movimientos(db)) : obtener_movimientos(db)[i][1] = d

\* option 1: duplicate pre-check, the three prompt loops, agregar_movimiento;
\* a mysql error is no ValueError and leaves the main loop
OpcionAgregar ==
    \E d \in Descriptores, e \in Entradas, f \in Pasos(6) :
        /\ estado = "menu"
        /\ UNCHANGED previos
        /\ Cabe(1, 1)
        /\ opcion' = "1"
        /\ numero' = d
        /\ IF YaExiste(DB, d)
           THEN /\ last' = Informa("agregar", d, "duplicado", FALSE, 0, <<>>, SinCarga,
                                   SinVol, 0, SinCoords, 0)
                /\ UNCHANGED <<coordenadas, volumen, tipo, registro, movimientos,
                               nextId, estado>>
           ELSE LET vol == leer_volumen(e.dims)
                    t == leer_tipo(e.tipos)
                    coords == leer_coordenadas(e.coords)
                IN  \E r \in {agregar_movimiento(DB, d, vol, t, coords, "1", f)} :
                    /\ Guardar(r.db)
                    /\ estado' = IF r.ok THEN "menu" ELSE "abortado"
                    /\ last' = Informa("agregar", d, IF r.ok THEN "ok" ELSE "abortado",
                                       r.fallo, 0, <<>>, SinCarga, vol, t, coords,
                                       r.abiertas)

\* option 2: the ValueError of Tipo_terreno(...) is caught nowhere
OpcionCalcular ==
    /\ estado = "menu"
    /\ UNCHANGED previos
    /\ opcion' = "2"
    /\ \E c \in {calcular_cubicacion_total(DB)} :
           /\ estado' = IF c.error THEN "abortado" ELSE "menu"
           /\ last' = Lectura("calcular", IF c.error THEN "abortado" ELSE "ok", c.total, <<>>)
    /\ UNCHANGED <<coordenadas, volumen, tipo, registro, movimientos, nextId, numero>>

\* option 3
OpcionInforme ==
    /\ estado = "menu"
    /\ UNCHANGED previos
    /\ opcion' = "3"
    /\ \E g \in {generar_informe_csv(DB)} :
           /\ estado' = IF g.outcome = "abortado" THEN "abortado" ELSE "menu"
           /\ last' = Lectura("informe", g.outcome, 0, g.filas)
    /\ UNCHANGED <<coordenadas, volumen, tipo, registro, movimientos, nextId, numero>>

\* option 4
OpcionCargar ==
    /\ estado = "menu"
    /\ UNCHANGED previos
    /\ \E c \in Cargas :
        /\ Cabe(c.completas, c.completas)
        /\ opcion' = "4"
        /\ \E r \in {cargar_movimientos(DB, c.archivo, c.falla)} :
               /\ Guardar(r.db)
               /\ last' = Informa("cargar", "", r.outcome, r.fallo, 0, <<>>,
                                  [creados |-> r.creados, saltadas |-> r.saltadas],
                                  SinVol, 0, SinCoords, 0)
        /\ UNCHANGED <<numero, estado>>

\* option 5
OpcionEditar ==
    \E d \in Descriptores, e \in Entradas, fa \in Pasos(6), f \in Pasos(5) :
        /\ estado = "menu"
        /\ UNCHANGED previos
        /\ Cabe(1, 2)
        /\ fa = 0 \/ f = 0
        /\ opcion' = "5"
        /\ LET vol == leer_volumen(e.dims)
               t == leer_tipo(e.tipos)
               coords == leer_coordenadas(e.coords)
           IN  \E r \in {editar_movimiento(DB, numero, d, vol, t, coords, fa, f)} :
               /\ Guardar(r.db)
               /\ last' = IF r.outcome = "no_encontrado"
                          THEN Informa("editar", d, r.outcome, FALSE, 0, <<>>, SinCarga,
                                       SinVol, 0, SinCoords, r.abiertas)
                          ELSE Informa("editar", d, r.outcome, r.fallo, 0, <<>>, SinCarga,
                                       vol, t, coords, r.abiertas)
        /\ UNCHANGED <<numero, estado>>

\* option 6
OpcionEliminar ==
    \E d \in Descriptores, f \in Pasos(6) :
        /\ estado = "menu"
        /\ UNCHANGED previos
        /\ Cabe(0, 1)
        /\ opcion' = "6"
        /\ \E r \in {eliminar_movimiento(DB, d, f)} :
               /\ Guardar(r.db)
               /\ last' = Informa("eliminar", d, r.outcome, r.fallo, 0, <<>>, SinCarga,
                                  SinVol, 0, SinCoords, r.abiertas)
        /\ UNCHANGED <<numero, estado>>

\* option 7
OpcionSalir ==
    /\ estado = "menu"
    /\ UNCHANGED previos
    /\ opcion' = "7"
    /\ estado' = "terminado"
    /\ last' = Lectura("salir", "ok", 0, <<>>)
    /\ UNCHANGED <<coordenadas, volumen, tipo, registro, movimientos, nextId, numero>>

Next ==
    \/ OpcionAgregar
    \/ OpcionCalcular
    \/ OpcionInforme
    \/ OpcionCargar
    \/ OpcionEditar
    \/ OpcionEliminar
    \/ OpcionSalir

Spec == Init /\ [][Next]_vars

(* ====================== properties of the repository =================== *)
Tablas == <<coordenadas, volumen, tipo, registro, movimientos>>

\* the stored record of descriptor d, with the rows it points to
Ficha(db, d) ==
    LET m == Buscar(db.movimientos, d)[1]
    IN  [m |-> m, v |-> db.volumen[m.id_volumen], t |-> db.tipo[m.id_tipo],
         c |-> db.coordenadas[m.id_coordenadas]]

Descs(movs) == [i \in 1..Len(movs) |-> movs[i].descriptor]

\* Option 2 only reads, and the menu offers it in every state it offers
\* anything: each store the program reaches is the store of a state that
\* option 2 has just left.  What a property says of the store alone, for
\* every file an import could be given, is evaluated in those states.
TrasLeer == last.op = "calcular"

(* ---- C1 ---- *)
C1_Unicos ==
    \A i, j \in 1..Len(movimientos) :
        movimientos[i].descriptor = movimientos[j].descriptor => i = j

C1_Paso ==
    /\ (opcion' = "1" /\ Existe(movimientos, numero'))
           => /\ last'.outcome = "duplicado"
              /\ estado' = "menu"
              /\ Tablas' = Tablas
    /\ (opcion' = "5" /\ last'.outcome # "no_encontrado" /\ Existe(movimientos, numero))
           => /\ last'.outcome = "error"
              /\ Tablas' = Tablas
    /\ (opcion' = "4")
           => \A d \in Descriptores :
                  Existe(movimientos, d)
                      => Existe(movimientos', d) /\ Ficha(DB', d) = Ficha(DB, d)

\* C1: no reachable state holds two movement records with the same
\* descriptor, and an add of a descriptor already present fails and leaves the
\* tables as they were: option 1 reports the duplicate and returns to the menu,
\* the agregar_movimiento call inside editar_movimiento is refused and the edit
\* reports an error, and an import keeps every record that was present.
C1_Uniqueness == []C1_Unicos /\ [][C1_Paso]_vars

\* option 1 was given a descriptor that is stored, and reported it
C1_Witness ==
    /\ last.op = "agregar"
    /\ last.outcome = "duplicado"
    /\ Existe(movimientos, last.d)
    /\ Len(movimientos) = 2

(* ---- C2 ---- *)
RECURSIVE SumaAjustada(_, _)
SumaAjustada(db, i) ==
    IF i > Len(db.movimientos) THEN 0
    ELSE LET m == db.movimientos[i]
         IN  db.volumen[m.id_volumen].total
                 * (100 + factores_correccion(db.tipo[m.id_tipo].tipo))
             + SumaAjustada(db, i + 1)

\* C2: the total that option 2 prints is the sum, over the stored records, of
\* raw volume x (1 + factor of the terrain code stored for the record); for a
\* lone record (2,3,4) of code 2 that is 4344 hundredths.
C2_TotalClaimed ==
    last.op = "calcular" => last.outcome = "ok" /\ last.total = SumaAjustada(DB, 1)

(* ---- C7 ---- *)
\* C7: after a successful add of d with dimensions (w,l,h) and terrain code t,
\* the row obtener_movimientos returns for d carries w x l x h and the code t.
C7_RoundTripClaimed ==
    (last.op = "agregar" /\ last.outcome = "ok")
        => \E i \in 1..Len(obtener_movimientos(DB)) :
               LET row == obtener_movimientos(DB)[i]
               IN  /\ row[1] = last.d
                   /\ row[2] = last.vol[1] * last.vol[2] * last.vol[3]
                   /\ row[3] = last.t

(* ---- C8 ---- *)
\* C8: every stored volumen row has ancho, largo and alto strictly positive.
C8_PositiveClaimed ==
    \A k \in DOMAIN volumen :
        volumen[k].ancho > 0 /\ volumen[k].largo > 0 /\ volumen[k].alto > 0

(* ---- C6 ---- *)
\* C6: option 5 or option 6 on a descriptor that is not stored reports
\* not-found, returns to the menu and changes no table (registro included) and
\* no counter.
C6_NotFound ==
    [][ (opcion' \in {"5", "6"} /\ ~Existe(movimientos, last'.d))
            => /\ last'.outcome = "no_encontrado"
               /\ estado' = "menu"
               /\ Tablas' = Tablas
               /\ nextId' = nextId ]_vars

\* an edit of an absent descriptor was refused while another record is stored
C6_Witness ==
    /\ last.op = "editar"
    /\ last.outcome = "no_encontrado"
    /\ ~Existe(movimientos, last.d)
    /\ movimientos # <<>>
    /\ registro # <<>>

(* ---- C10 ---- *)
\* C10: with no movement stored, calcular_cubicacion_total returns 0 without
\* an error and generar_informe_csv reports that there is nothing to report
\* and writes no row; options 2 and 3 then show exactly that.
C10_EmptyStore ==
    movimientos = <<>>
        => /\ calcular_cubicacion_total(DB) = [error |-> FALSE, total |-> 0]
           /\ generar_informe_csv(DB) = [outcome |-> "sin_movimientos", filas |-> <<>>]
           /\ last.op = "calcular" => last.outcome = "ok" /\ last.total = 0
           /\ last.op = "informe" => last.outcome = "sin_movimientos" /\ last.filas = <<>>
           /\ last.op \in {"calcular", "informe"} => estado = "menu"

\* option 3 ran on a store emptied by a removal
C10_Witness ==
    /\ movimientos = <<>>
    /\ last.op = "informe"
    /\ \E k \in DOMAIN registro : registro[k] = "Eliminar"

(* ---- C3 ---- *)
\* C3: an edit of a stored descriptor d with valid inputs, whatever ran before
\* it in the session, succeeds and leaves d stored with raw volume w x l x h,
\* terrain code t with its factor, and the coordinates given.
C3_EditClaimed ==
    (last.op = "editar" /\ last.outcome # "no_encontrado" /\ ~last.fallo)
        => /\ last.outcome = "ok"
           /\ Existe(movimientos, last.d)
           /\ Ficha(DB, last.d).v.total = last.vol[1] * last.vol[2] * last.vol[3]
           /\ Ficha(DB, last.d).t.tipo = last.t
           /\ Ficha(DB, last.d).t.factor_de_esponjamiento = factores_correccion(last.t)
           /\ Ficha(DB, last.d).c.este = last.coords[1]
           /\ Ficha(DB, last.d).c.norte = last.coords[2]

(* ---- C4 ---- *)
Nuevos == (DOMAIN registro') \ (DOMAIN registro)

Anota(n, etiqueta) ==
    /\ Cardinality(Nuevos) = n
    /\ \A k \in Nuevos : registro'[k] = etiqueta

C4_Paso ==
    /\ \A k \in DOMAIN registro : k \in DOMAIN registro' /\ registro'[k] = registro[k]
    /\ opcion' = "1" => Anota(IF last'.outcome = "ok" THEN 1 ELSE 0, "1")
    /\ opcion' = "4" => Anota(last'.carga.creados, "4")
    /\ opcion' = "5" => Anota(IF last'.outcome = "ok" THEN 1 ELSE 0, "Editar")
    /\ opcion' = "6" => Anota(IF last'.outcome = "ok" THEN 1 ELSE 0, "Eliminar")
    /\ opcion' \in {"2", "3", "7"} => Anota(0, "")

\* C4: registro only grows, and an operation appends one entry per record it
\* adds (tagged with the menu option), exactly one entry tagged "Editar" per
\* successful edit, exactly one tagged "Eliminar" per successful removal, and
\* none when it fails or only reads.
C4_AuditClaimed == [][C4_Paso]_vars

(* ---- C5 ---- *)
\* C5: when a storage fault aborts an add, an edit or a removal, the committed
\* tables afterwards are the committed tables before the operation started.
C5_AtomicClaimed ==
    [][ (opcion' \in {"1", "5", "6"} /\ last'.fallo) => Tablas' = Tablas ]_vars

(* ---- C9 ---- *)
Corta(row) == Len(row) < 7

BienFormada(row) ==
    /\ Len(row) = 7
    /\ EsNumeral(row[2]) /\ EsNumeral(row[3]) /\ EsNumeral(row[4])
    /\ EsNumeral(row[5]) /\ Valor(row[5]) \in 1..8
    /\ EsNumeral(row[6]) /\ EsNumeral(row[7])

\* every data row is short or well-formed with a descriptor that is neither
\* stored nor carried by an earlier well-formed row of the file
SoloCortasYBuenas(db, filas) ==
    /\ filas # <<>>
    /\ \A i \in 2..Len(filas) :
           \/ Corta(filas[i])
           \/ /\ BienFormada(filas[i])
              /\ ~Existe(db.movimientos, filas[i][1])
              /\ \A j \in 2..(i - 1) : Corta(filas[j]) \/ filas[j][1] # filas[i][1]

RECURSIVE DescriptoresDe(_, _)
DescriptoresDe(filas, i) ==
    IF i > Len(filas) THEN <<>>
    ELSE IF Corta(filas[i]) THEN DescriptoresDe(filas, i + 1)
    ELSE <<filas[i][1]>> \o DescriptoresDe(filas, i + 1)

\* C9: in every reachable store, importing a file whose data rows are each
\* short or well-formed raises nothing, prints one diagnostic per short row
\* wherever it stands, and appends exactly one record per well-formed row, in
\* file order, behind the records already stored; the header yields no record.
C9_ImportShortRows ==
    TrasLeer => \A a \in Archivos :
        (a.existe /\ SoloCortasYBuenas(DB, a.filas))
            => LET r == cargar_movimientos(DB, a, SinFalla)
                   n == Len(movimientos)
                   buenas == DescriptoresDe(a.filas, 2)
               IN  /\ r.outcome = "ok"
                   /\ r.creados = Len(buenas)
                   /\ r.saltadas = Len(a.filas) - 1 - Len(buenas)
                   /\ Descs(r.db.movimientos) = Descs(movimientos) \o buenas
                   /\ SubSeq(r.db.movimientos, 1, n) = movimientos
                   /\ \A i \in 1..Len(buenas) :
                          r.db.movimientos[n + i].id_registro \in DOMAIN r.db.registro
                          /\ r.db.registro[r.db.movimientos[n + i].id_registro] = "4"

\* option 4 ran to the end, skipped a short row and created a record
C9_Witness ==
    /\ last.op = "cargar"
    /\ last.outcome = "ok"
    /\ last.carga.saltadas >= 1
    /\ last.carga.creados >= 1
    /\ Len(movimientos) = 2

(* ---- C11 ---- *)
\* number of movement records that point to row k of the table named col
Duenos(movs, col, k) == Cardinality({i \in 1..Len(movs) : movs[i][col] = k})

C11_Propiedad ==
    /\ \A k \in DOMAIN volumen : Duenos(movimientos, "id_volumen", k) = 1
    /\ \A k \in DOMAIN tipo : Duenos(movimientos, "id_tipo", k) = 1
    /\ \A k \in DOMAIN coordenadas : Duenos(movimientos, "id_coordenadas", k) = 1
    /\ \A i \in 1..Len(movimientos) :
           /\ movimientos[i].id_volumen \in DOMAIN volumen
           /\ movimientos[i].id_tipo \in DOMAIN tipo
           /\ movimientos[i].id_coordenadas \in DOMAIN coordenadas

C11_Cascada ==
    (opcion' = "6" /\ last'.outcome = "ok")
        => LET m == Buscar(movimientos, last'.d)[1]
               Otro(x) == x.descriptor # last'.d
           IN  /\ Existe(movimientos, last'.d)
               /\ ~Existe(movimientos', last'.d)
               /\ movimientos' = SelectSeq(movimientos, Otro)
               /\ volumen' = Del(volumen, m.id_volumen)
               /\ tipo' = Del(tipo, m.id_tipo)
               /\ coordenadas' = Del(coordenadas, m.id_coordenadas)
               /\ \A d \in Descriptores \ {last'.d} :
                      Existe(movimientos, d)
                          => Existe(movimientos', d) /\ Ficha(DB', d) = Ficha(DB, d)

\* C11: every row of volumen, tipo and coordenadas is pointed to by exactly
\* one movement record and every record's three rows exist (nothing shared,
\* nothing orphaned); a successful removal of d deletes d's record and its
\* three rows and leaves every other record and its rows as they were.
C11_Ownership == []C11_Propiedad /\ [][C11_Cascada]_vars

\* a record was removed while another one, added before it, stays stored
C11_Witness ==
    /\ last.op = "eliminar"
    /\ last.outcome = "ok"
    /\ Len(movimientos) = 1
    /\ movimientos[1].id_volumen < nextId.volumen - 1
    /\ DOMAIN volumen = {movimientos[1].id_volumen}
    /\ DOMAIN tipo = {movimientos[1].id_tipo}
    /\ DOMAIN coordenadas = {movimientos[1].id_coordenadas}

(* ---- C12 ---- *)
FilasDe(filas, clase) == SelectSeq(filas, LAMBDA f : f.clase = clase)

RECURSIVE SumaFilas(_, _)
SumaFilas(filas, i) ==
    IF i > Len(filas) THEN 0 ELSE filas[i].esponjamiento + SumaFilas(filas, i + 1)

\* C12: on every non-empty store the report that option 3 writes has exactly
\* one movement row per stored record, in store order, and ends in a single
\* total row whose figure is the sum of the adjusted volumes of the movement
\* rows above it.
C12_ReportClaimed ==
    (last.op = "informe" /\ movimientos # <<>>)
        => /\ last.outcome = "ok"
           /\ Len(FilasDe(last.filas, "movimiento")) = Len(movimientos)
           /\ \A i \in 1..Len(movimientos) :
                  FilasDe(last.filas, "movimiento")[i].descriptor = movimientos[i].descriptor
           /\ Len(FilasDe(last.filas, "total")) = 1
           /\ last.filas[Len(last.filas)].clase = "total"
           /\ last.filas[Len(last.filas)].esponjamiento
                  = SumaFilas(FilasDe(last.filas, "movimiento"), 1)

(* ---- C13 ---- *)
\* C13: every stored volumen row has total = ancho x largo x alto, whatever
\* interactive adds, imports, edits and removals produced the store.
C13_RawVolume ==
    \A k \in DOMAIN volumen :
        volumen[k].total = volumen[k].ancho * volumen[k].largo * volumen[k].alto

\* an edit went through on a store that also holds an imported record, and
\* the stored totals are not all 1
C13_Witness ==
    /\ last.op = "editar"
    /\ last.outcome = "ok"
    /\ Len(movimientos) = 2
    /\ \E k \in DOMAIN registro : registro[k] = "4"
    /\ \E k \in DOMAIN volumen : volumen[k].total = 24 /\ volumen[k].alto = 4

(* ---- C14 ---- *)
C14_Paso ==
    /\ \A d \in Descriptores :
           /\ (~Existe(movimientos, d) /\ Existe(movimientos', d))
                  => \/ opcion' = "1" /\ last'.d = d
                     \/ opcion' = "4"
           /\ (Existe(movimientos, d) /\ ~Existe(movimientos', d))
                  => opcion' = "6" /\ last'.d = d
    /\ opcion' = "5"
           => /\ Descs(movimientos') = Descs(movimientos)
              /\ \A d \in Descriptores \ {last'.d} :
                     Existe(movimientos, d) => Ficha(DB', d) = Ficha(DB, d)

\* C14: a descriptor becomes stored only by an add or an import and stops
\* being stored only by a removal that names it; an edit creates no record,
\* removes none and leaves every record other than the one it names as it
\* was, so a removed descriptor stays absent through later edits.
C14_LifecycleClaimed == [][C14_Paso]_vars

(* ---- C15 ---- *)
\* row k of the file is the first that is neither short nor a well-formed row
\* with a new descriptor, and it fails on its terrain code or on its descriptor
PrimeraMala(db, filas, k) ==
    /\ k \in 2..Len(filas)
    /\ SoloCortasYBuenas(db, SubSeq(filas, 1, k - 1))
    /\ Len(filas[k]) = 7
    /\ EsNumeral(filas[k][2]) /\ EsNumeral(filas[k][3]) /\ EsNumeral(filas[k][4])
    /\ EsNumeral(filas[k][5])
    /\ \/ ~Tipo_terreno_valido(Valor(filas[k][5]))
       \/ Existe(db.movimientos, filas[k][1])
       \/ \E j \in 2..(k - 1) : ~Corta(filas[j]) /\ filas[j][1] = filas[k][1]

\* C15: in every reachable store, an import that meets a first complete row
\* with an invalid terrain code or a descriptor already present stops there
\* and reports an error: the well-formed rows before it are stored behind the
\* records already there, nothing is stored for that row or any later one, and
\* option 4 returns to the menu.
C15_ImportAbort ==
    /\ TrasLeer => \A a \in Archivos : \A k \in 2..Len(a.filas) :
           (a.existe /\ PrimeraMala(DB, a.filas, k))
               => LET r == cargar_movimientos(DB, a, SinFalla)
                      n == Len(movimientos)
                      antes == DescriptoresDe(SubSeq(a.filas, 1, k - 1), 2)
                  IN  /\ r.outcome = "error"
                      /\ ~r.fallo
                      /\ r.creados = Len(antes)
                      /\ Descs(r.db.movimientos) = Descs(movimientos) \o antes
                      /\ SubSeq(r.db.movimientos, 1, n) = movimientos
                      /\ Cardinality(DOMAIN r.db.volumen) = n + Len(antes)
                      /\ Cardinality(DOMAIN r.db.tipo) = n + Len(antes)
                      /\ Cardinality(DOMAIN r.db.coordenadas) = n + Len(antes)
                      /\ Cardinality(DOMAIN r.db.registro)
                             = Cardinality(DOMAIN registro) + Len(antes)
    /\ last.op = "cargar" => estado = "menu"

\* option 4 stored one record, then stopped at a bad row and reported it
C15_Witness ==
    /\ last.op = "cargar"
    /\ last.outcome = "error"
    /\ ~last.fallo
    /\ last.carga.creados = 1
    /\ Len(movimientos) = 2
    /\ estado = "menu"

(* ---- C16 ---- *)
\* C16: after a successful add or edit of d with coordinates (este = e,
\* norte = n), the row obtener_movimientos returns for d carries e as its
\* este field and n as its norte field, which is the pair the report prints.
C16_CoordsClaimed ==
    (last.op \in {"agregar", "editar"} /\ last.outcome = "ok")
        => \E i \in 1..Len(obtener_movimientos(DB)) :
               LET row == obtener_movimientos(DB)[i]
               IN  /\ row[1] = last.d
                   /\ row[4] = last.coords[1]
                   /\ row[5] = last.coords[2]

(* ---- C17 ---- *)
\* C17: on every store that adds, imports, edits and removals with terrain
\* codes 1..8 can produce, however many records were added over its life,
\* the terrain value obtener_movimientos returns for each record is one of the
\* eight types, and options 2 and 3 complete and return to the menu.
C17_ReadsClaimed ==
    /\ \A i \in 1..Len(obtener_movimientos(DB)) :
           Tipo_terreno_valido(obtener_movimientos(DB)[i][3])
    /\ ~calcular_cubicacion_total(DB).error
    /\ generar_informe_csv(DB).outcome # "abortado"
    /\ last.op \in {"calcular", "informe"} => last.outcome # "abortado" /\ estado = "menu"

(* ---- C18 ---- *)
\* C18: every operation has closed each connection it opened by the time it
\* returns, whether it succeeded, found nothing or failed; back at the menu no
\* connection of the last operation is open.
C18_ReleaseClaimed == last.abiertas = 0

====
